---------------------------- MODULE Spec2Model ----------------------------
(***************************************************************************)
(* A model of short_lines3.1.py, the last iteration of the text            *)
(* reformatter: the command-line driver (validate_args, the two prompts,   *)
(* read_input_file, reformat_text, write_output_file, main) and the        *)
(* reformatting pipeline (whitespace normalisation, split_into_sentences,  *)
(* group_sentences_into_paragraphs, textwrap.fill).                        *)
(*                                                                         *)
(* A Python str is a sequence of one-character strings.  The alphabet of   *)
(* file contents is Chars; it holds no hyphen and no tab, so textwrap's    *)
(* wordsep_re reduces to its first and last alternatives (runs of          *)
(* whitespace, runs of non-whitespace) and expand_tabs does nothing.       *)
(***************************************************************************)
EXTENDS Integers, Sequences, FiniteSets, TLC

\* ------------------------------------------------------------------ bounds
MaxLen == 7          \* longest file content of the pipeline specification
MaxWidth == 3        \* largest line width of the pipeline specification
MaxGroup == 2        \* largest sentences-per-paragraph of the bounded specs
MaxSentences == 4    \* longest sentence sequence of the grouping specification
MaxAttempts == 2     \* rejected prompt entries counted per prompt
MaxFileLen == 2      \* longest file content of the command-line specification

\* ------------------------------------------------------- program constants
DefaultLineLength == 70
DefaultSentencesPerParagraph == 3
MinArgc == 3
MaxArgc == 5

\* -------------------------------------------------------------- characters
Chars == {"a", ".", " ", "\n"}
Whitespace == {" ", "\n"}
Terminal == {".", "!", "?"}

Min(a, b) == IF a <= b THEN a ELSE b

\* All sequences over S of length lo..hi.
SeqsOf(S, lo, hi) == UNION {[1..n -> S] : n \in lo..hi}

\* ------------------------------------------------------------ str methods
\* Python slice s[i:j] for 0 <= i: indices are 0-based and clamp at len(s).
Slice(s, i, j) == SubSeq(s, i + 1, Min(j, Len(s)))

RECURSIVE Join(_, _)
\* sep.join(parts)
Join(parts, sep) ==
    IF parts = <<>> THEN <<>>
    ELSE IF Len(parts) = 1 THEN parts[1]
    ELSE parts[1] \o sep \o Join(Tail(parts), sep)

RECURSIVE SplitWs(_, _, _)
SplitWs(s, cur, acc) ==
    IF s = <<>> THEN (IF cur = <<>> THEN acc ELSE Append(acc, cur))
    ELSE IF Head(s) \in Whitespace
         THEN SplitWs(Tail(s), <<>>, IF cur = <<>> THEN acc ELSE Append(acc, cur))
         ELSE SplitWs(Tail(s), Append(cur, Head(s)), acc)

\* s.split(): the maximal runs of non-whitespace, in order.
StrSplit(s) == SplitWs(s, <<>>, <<>>)

RECURSIVE LStrip(_)
LStrip(s) == IF s # <<>> /\ Head(s) \in Whitespace THEN LStrip(Tail(s)) ELSE s

RECURSIVE RStrip(_)
RStrip(s) ==
    IF s # <<>> /\ s[Len(s)] \in Whitespace THEN RStrip(SubSeq(s, 1, Len(s) - 1)) ELSE s

\* s.strip()
Strip(s) == RStrip(LStrip(s))

\* s.endswith(suffix)
EndsWith(s, suffix) ==
    /\ Len(suffix) <= Len(s)
    /\ SubSeq(s, Len(s) - Len(suffix) + 1, Len(s)) = suffix

\* " ".join(content.split())
NormalizeWhitespace(content) == Join(StrSplit(content), <<" ">>)

\* ------------------------------------------------------ split_into_sentences
RECURSIVE DropSpaces(_)
DropSpaces(s) == IF s # <<>> /\ Head(s) = " " THEN DropSpaces(Tail(s)) ELSE s

RECURSIVE ReSplitAnySpace(_, _, _, _)
\* Fault variant of ReSplit: the pattern lacks its lookbehind, ' +'.
ReSplitAnySpace(s, prev, cur, acc) ==
    IF s = <<>> THEN Append(acc, cur)
    ELSE IF Head(s) = " "
         THEN ReSplitAnySpace(DropSpaces(s), " ", <<>>, Append(acc, cur))
         ELSE ReSplitAnySpace(Tail(s), Head(s), Append(cur, Head(s)), acc)

RECURSIVE ReSplit(_, _, _, _)
\* re.split(r'(?<=[.!?]) +', text): cut at every run of spaces that directly
\* follows a terminal mark; prev is the character before Head(s).
ReSplit(s, prev, cur, acc) ==
    IF s = <<>> THEN Append(acc, cur)
    ELSE IF Head(s) = " " /\ prev \in Terminal
         THEN ReSplit(DropSpaces(s), " ", <<>>, Append(acc, cur))
         ELSE ReSplit(Tail(s), Head(s), Append(cur, Head(s)), acc)

MapStrip(pieces) == [i \in 1..Len(pieces) |-> Strip(pieces[i])]

NonEmptyStr(s) == s # <<>>

split_into_sentences(text) ==
    SelectSeq(MapStrip(ReSplit(text, "", <<>>, <<>>)), NonEmptyStr)

\* ------------------------------------------- group_sentences_into_paragraphs
RECURSIVE GroupFromFullOnly(_, _, _)
\* Fault variant of GroupFrom: a last chunk shorter than k is dropped.
GroupFromFullOnly(sentences, i, k) ==
    IF i + k > Len(sentences) THEN <<>>
    ELSE <<Join(Slice(sentences, i, i + k), <<" ">>)>>
         \o GroupFromFullOnly(sentences, i + k, k)

RECURSIVE GroupFrom(_, _, _)
\* for i in range(i, len(sentences), k): " ".join(sentences[i:i + k])
GroupFrom(sentences, i, k) ==
    IF i >= Len(sentences) THEN <<>>
    ELSE <<Join(Slice(sentences, i, i + k), <<" ">>)>> \o GroupFrom(sentences, i + k, k)

\* range(0, n, k) is empty for k < 0; k = 0 raises (see ReformatRaises).
group_sentences_into_paragraphs(sentences, max_sentences_per_paragraph) ==
    IF max_sentences_per_paragraph < 0 THEN <<>>
    ELSE GroupFrom(sentences, 0, max_sentences_per_paragraph)

\* ------------------------------------------------------------ textwrap.fill
\* TextWrapper._munge_whitespace: every whitespace character becomes a space.
MungeWhitespace(text) ==
    [i \in 1..Len(text) |-> IF text[i] \in Whitespace THEN " " ELSE text[i]]

RECURSIVE ChunkRuns(_, _, _)
ChunkRuns(s, cur, acc) ==
    IF s = <<>> THEN (IF cur = <<>> THEN acc ELSE Append(acc, cur))
    ELSE IF cur = <<>> \/ ((Head(s) = " ") = (cur[1] = " "))
         THEN ChunkRuns(Tail(s), Append(cur, Head(s)), acc)
         ELSE ChunkRuns(Tail(s), <<Head(s)>>, Append(acc, cur))

\* TextWrapper._split: alternating runs of spaces and of non-spaces.
SplitChunks(text) == ChunkRuns(text, <<>>, <<>>)

\* chunk.strip() == ''
IsBlank(chunk) == \A i \in 1..Len(chunk) : chunk[i] \in Whitespace

RECURSIVE ConcatAll(_)
ConcatAll(chunks) == IF chunks = <<>> THEN <<>> ELSE Head(chunks) \o ConcatAll(Tail(chunks))

RECURSIVE TakeFitting(_, _, _, _)
\* the inner loop of _wrap_chunks: move chunks onto the line while they fit.
TakeFitting(chunks, cur_line, cur_len, width) ==
    IF chunks # <<>> /\ cur_len + Len(Head(chunks)) <= width
    THEN TakeFitting(Tail(chunks), Append(cur_line, Head(chunks)),
                     cur_len + Len(Head(chunks)), width)
    ELSE [cur_line |-> cur_line, cur_len |-> cur_len, chunks |-> chunks]

\* TextWrapper._handle_long_word with break_long_words = True (the default):
\* the chunk is cut at the space left on the line.
HandleLongWord(t, width) ==
    LET space_left == IF width < 1 THEN 1 ELSE width - t.cur_len
        chunk == Head(t.chunks)
    IN [cur_line |-> Append(t.cur_line, Slice(chunk, 0, space_left)),
        cur_len |-> t.cur_len + Min(space_left, Len(chunk)),
        chunks |-> <<Slice(chunk, space_left, Len(chunk))>> \o Tail(t.chunks)]

\* drop_whitespace = True: a trailing all-whitespace chunk leaves the line.
DropTrailingBlank(cur_line) ==
    IF cur_line # <<>> /\ IsBlank(cur_line[Len(cur_line)])
    THEN SubSeq(cur_line, 1, Len(cur_line) - 1)
    ELSE cur_line

RECURSIVE WrapChunks(_, _, _)
\* TextWrapper._wrap_chunks, for width >= 1
WrapChunks(chunks, width, lines) ==
    IF chunks = <<>> THEN lines
    ELSE LET c0 == IF IsBlank(Head(chunks)) /\ lines # <<>> THEN Tail(chunks) ELSE chunks
             t == TakeFitting(c0, <<>>, 0, width)
             h == IF t.chunks # <<>> /\ Len(Head(t.chunks)) > width
                  THEN HandleLongWord(t, width) ELSE t
             cur_line == DropTrailingBlank(h.cur_line)
         IN WrapChunks(h.chunks, width,
                       IF cur_line = <<>> THEN lines ELSE Append(lines, ConcatAll(cur_line)))

\* textwrap.wrap(text, width)
Wrap(text, width) == WrapChunks(SplitChunks(MungeWhitespace(text)), width, <<>>)

\* textwrap.fill(text, width) = "\n".join(wrap(text, width))
Fill(text, width) == Join(Wrap(text, width), <<"\n">>)

\* -------------------------------------------------------------- reformat_text
WrapAll(paragraphs, width) == [i \in 1..Len(paragraphs) |-> Fill(paragraphs[i], width)]

\* The ValueError cases inside reformat_text's try block: range() with a zero
\* step, and textwrap's "invalid width" once there is a paragraph to wrap.
ReformatRaises(content, line_length, sentences_per_paragraph) ==
    \/ sentences_per_paragraph = 0
    \/ /\ sentences_per_paragraph > 0
       /\ line_length <= 0
       /\ split_into_sentences(NormalizeWhitespace(content)) # <<>>

\* The values reformat_text computes when nothing raises.
reformat_text(content, line_length, sentences_per_paragraph) ==
    LET t == NormalizeWhitespace(content)
        s == split_into_sentences(t)
        p == group_sentences_into_paragraphs(s, sentences_per_paragraph)
    IN [text |-> t, sentences |-> s, paragraphs |-> p,
        new_text |-> Join(WrapAll(p, line_length), <<"\n", "\n">>)]


\* ------------------------------------------------------------------- int()
Digits == {"0", "1", "2", "3", "4", "5", "6", "7", "8", "9"}

DigitVal(c) ==
    CASE c = "0" -> 0 [] c = "1" -> 1 [] c = "2" -> 2 [] c = "3" -> 3 [] c = "4" -> 4
      [] c = "5" -> 5 [] c = "6" -> 6 [] c = "7" -> 7 [] c = "8" -> 8 [] c = "9" -> 9

RECURSIVE DigitsValue(_, _)
DigitsValue(s, acc) ==
    IF s = <<>> THEN acc ELSE DigitsValue(Tail(s), 10 * acc + DigitVal(Head(s)))

\* int(s): surrounding whitespace, one optional sign, then decimal digits;
\* ok = FALSE stands for ValueError.
ParseInt(s) ==
    LET t == Strip(s)
        signed == t # <<>> /\ t[1] \in {"+", "-"}
        d == IF signed THEN Tail(t) ELSE t
    IN IF d # <<>> /\ \A i \in 1..Len(d) : d[i] \in Digits
       THEN [ok |-> TRUE,
             value |-> IF signed /\ t[1] = "-" THEN 0 - DigitsValue(d, 0)
                       ELSE DigitsValue(d, 0)]
       ELSE [ok |-> FALSE, value |-> 0]

\* ------------------------------------------------------------ the program
VARIABLES
    pc,                       \* the statement of main about to run
    argv,                     \* sys.argv; argv[1] is sys.argv[0]
    fs,                       \* the input path: exists, readable, data
    line_length,              \* None or <<n>>
    sentences_per_paragraph,  \* None or <<n>>
    last_input,               \* the last line input() returned, or EOF
    attempts,                 \* entries the running prompt has rejected
    prompted,                 \* the prompts issued so far
    input_read,               \* the input file has been opened and read
    content, text, sentences, paragraphs, new_text,
    out_opened,               \* the output path has been opened for writing
    out_data,                 \* what has been written to the output path
    exit_status,              \* None while running, then <<status>>
    message                   \* the message the process ended with

vars == <<pc, argv, fs, line_length, sentences_per_paragraph, last_input, attempts,
          prompted, input_read, content, text, sentences, paragraphs, new_text,
          out_opened, out_data, exit_status, message>>

\* Python's None, for the optional integers and the exit status.
None == <<>>
EOF == <<"EOF">>

ACCEPTED_FILE_FORMATS ==
    { <<".", "c", "s", "v">>, <<".", "t", "x", "t">>, <<".", "d", "o", "c", "x">>,
      <<".", "p", "d", "f">>, <<".", "m", "d">>, <<".", "j", "s", "o", "n">>,
      <<".", "t", "e", "x", "t">> }

\* Fault variant of HasAcceptedFormat: any name with a dot passes.
HasAnyExtension(name) == \E i \in 1..Len(name) : name[i] = "."

\* name.endswith(ACCEPTED_FILE_FORMATS)
HasAcceptedFormat(name) == \E suffix \in ACCEPTED_FILE_FORMATS : EndsWith(name, suffix)

MsgUsage == "Usage: python short_lines.py <input_file> <output_file> [line_length] [sentences_per_paragraph]"
MsgNotFound == "Error: Input file does not exist"
MsgExtension == "Error: Both input and output files must have a valid extension"
MsgLinePositive == "Error: Line length must be a positive integer greater than zero."
MsgLineInteger == "Error: Line length must be a valid integer."
MsgSentPositive == "Error: Sentences per paragraph must be greater than zero."
MsgSentInteger == "Error: Sentences per paragraph must be a valid integer."
MsgRead == "Error reading input file"
MsgEmpty == "Error: Input file is empty"
MsgReformat == "Error reformatting text"
MsgWrite == "Error writing output file"
MsgEOFError == "EOFError"
MsgSuccess == "Successfully wrote formatted text"

\* len(sys.argv) and sys.argv[i]
Argc == Len(argv)
Arg(i) == argv[i + 1]

\* ------------------------------------------------ inputs of the bounded runs
ProgName == <<"p", "y">>
InputNames == { <<"a", ".", "t", "x", "t">>, <<"d", ".", "x", "y", "z">> }
OutputNames == { <<"b", ".", "m", "d">>, <<"t", "x", "t">> }
NumericArgs == { <<"2">>, <<"-", "5">>, <<"0">>, <<"x">>, <<"+", "3">>, <<>> }
PromptEntries == { <<>>, <<" ">>, <<"2">>, <<"-", "5">>, <<"0">>, <<"x">> }

ArgvSet ==
    {<<ProgName, i>> : i \in InputNames}
    \cup {<<ProgName, i, o>> : i \in InputNames, o \in OutputNames}
    \cup {<<ProgName, i, o, n>> : i \in InputNames, o \in OutputNames, n \in NumericArgs}
    \cup {<<ProgName, i, o, n, m>> :
            i \in InputNames, o \in OutputNames, n \in NumericArgs, m \in NumericArgs}
    \cup {<<ProgName, i, o, <<"2">>, <<"2">>, <<"2">> >> :
            i \in InputNames, o \in OutputNames}

FsSet ==
    {[exists |-> FALSE, readable |-> FALSE, data |-> <<>>],
     [exists |-> TRUE, readable |-> FALSE, data |-> <<>>]}
    \cup {[exists |-> TRUE, readable |-> TRUE, data |-> d] : d \in SeqsOf(Chars, 0, MaxFileLen)}

\* What read_input_file can return: stripped and non-empty.
StrippedContents(n) == {c \in SeqsOf(Chars, 1, n) : Strip(c) = c}

SampleSentences == { <<"a", ".">>, <<".", "!">>, <<"a", " ", "a", "?">> }

Blank ==
    /\ last_input = <<>> /\ attempts = 0 /\ prompted = {} /\ input_read = FALSE
    /\ text = <<>> /\ paragraphs = <<>> /\ new_text = <<>>
    /\ out_opened = FALSE /\ out_data = <<>>
    /\ exit_status = None /\ message = ""

\* --------------------------------------------------------------- actions
\* sys.exit(msg): the message goes to stderr and the status is 1.
SysExit(msg) == pc' = "exit" /\ exit_status' = <<1>> /\ message' = msg

\* Fault variant of AfterArgs: the two tests look at each other's variable.
AfterArgsSwapped(ll, spp) ==
    IF spp = None THEN "get_line_length"
    ELSE IF ll = None THEN "get_sentences_per_paragraph"
    ELSE "read_input_file"

\* main, lines 178-183: the statement that follows validate_args or a prompt.
AfterArgs(ll, spp) ==
    IF ll = None THEN "get_line_length"
    ELSE IF spp = None THEN "get_sentences_per_paragraph"
    ELSE "read_input_file"

\* Fault variant of CheckNumericArg: the test is < 0, so zero passes.
CheckNumericArgAcceptsZero(arg, msgInteger, msgPositive) ==
    LET n == ParseInt(arg)
    IN IF ~n.ok THEN [msg |-> msgInteger, value |-> None]
       ELSE IF n.value < 0 THEN [msg |-> msgPositive, value |-> <<n.value>>]
       ELSE [msg |-> "", value |-> <<n.value>>]

\* validate_args, lines 61-66 and 69-74: int(arg), then the test for <= 0.
\* msg is "" when the argument passes; value is what the local variable holds.
CheckNumericArg(arg, msgInteger, msgPositive) ==
    LET n == ParseInt(arg)
    IN IF ~n.ok THEN [msg |-> msgInteger, value |-> None]
       ELSE IF n.value <= 0 THEN [msg |-> msgPositive, value |-> <<n.value>>]
       ELSE [msg |-> "", value |-> <<n.value>>]

validate_args ==
    /\ pc = "validate_args"
    /\ UNCHANGED <<argv, fs, last_input, attempts, prompted, input_read, content, text,
                   sentences, paragraphs, new_text, out_opened, out_data>>
    /\ IF Argc < MinArgc \/ Argc > MaxArgc
       THEN SysExit(MsgUsage) /\ UNCHANGED <<line_length, sentences_per_paragraph>>
       ELSE IF ~fs.exists
       THEN SysExit(MsgNotFound) /\ UNCHANGED <<line_length, sentences_per_paragraph>>
       ELSE IF ~HasAcceptedFormat(Arg(1)) \/ ~HasAcceptedFormat(Arg(2))
       THEN SysExit(MsgExtension) /\ UNCHANGED <<line_length, sentences_per_paragraph>>
       ELSE LET c3 == IF Argc >= 4
                      THEN CheckNumericArg(Arg(3), MsgLineInteger, MsgLinePositive)
                      ELSE [msg |-> "", value |-> None]
                c4 == IF Argc = 5
                      THEN CheckNumericArg(Arg(4), MsgSentInteger, MsgSentPositive)
                      ELSE [msg |-> "", value |-> None]
            IN IF c3.msg # ""
               THEN SysExit(c3.msg)
                    /\ line_length' = c3.value /\ UNCHANGED sentences_per_paragraph
               ELSE IF c4.msg # ""
               THEN SysExit(c4.msg)
                    /\ line_length' = c3.value /\ sentences_per_paragraph' = c4.value
               ELSE /\ pc' = AfterArgs(c3.value, c4.value)
                    /\ line_length' = c3.value
                    /\ sentences_per_paragraph' = c4.value
                    /\ UNCHANGED <<exit_status, message>>

\* Fault variant of PromptValue: the test is < 0, so zero is returned.
PromptValueAcceptsZero(entry, default) ==
    LET user_input == Strip(entry)
        n == ParseInt(user_input)
    IN IF user_input = <<>> THEN <<default>>
       ELSE IF n.ok /\ n.value >= 0 THEN <<n.value>>
       ELSE None

\* One turn of a prompt's while loop on the line input() returns; at end of
\* input input() raises EOFError, which nothing catches.  accepted is the
\* value returned (None: the entry is rejected and the loop goes round).
PromptValue(entry, default) ==
    LET user_input == Strip(entry)
        n == ParseInt(user_input)
    IN IF user_input = <<>> THEN <<default>>
       ELSE IF n.ok /\ n.value > 0 THEN <<n.value>>
       ELSE None

get_line_length ==
    /\ pc = "get_line_length"
    /\ UNCHANGED <<argv, fs, sentences_per_paragraph, input_read, content, text, sentences,
                   paragraphs, new_text, out_opened, out_data>>
    /\ prompted' = prompted \cup {"line_length"}
    /\ \E entry \in PromptEntries \cup {EOF} :
         /\ last_input' = entry
         /\ IF entry = EOF
            THEN SysExit(MsgEOFError) /\ UNCHANGED <<line_length, attempts>>
            ELSE IF PromptValue(entry, DefaultLineLength) # None
            THEN /\ line_length' = PromptValue(entry, DefaultLineLength)
                 /\ pc' = AfterArgs(line_length', sentences_per_paragraph)
                 /\ attempts' = 0
                 /\ UNCHANGED <<exit_status, message>>
            ELSE /\ attempts < MaxAttempts
                 /\ attempts' = attempts + 1
                 /\ UNCHANGED <<pc, line_length, exit_status, message>>

get_sentences_per_paragraph ==
    /\ pc = "get_sentences_per_paragraph"
    /\ UNCHANGED <<argv, fs, line_length, input_read, content, text, sentences,
                   paragraphs, new_text, out_opened, out_data>>
    /\ prompted' = prompted \cup {"sentences_per_paragraph"}
    /\ \E entry \in PromptEntries \cup {EOF} :
         /\ last_input' = entry
         /\ IF entry = EOF
            THEN SysExit(MsgEOFError) /\ UNCHANGED <<sentences_per_paragraph, attempts>>
            ELSE IF PromptValue(entry, DefaultSentencesPerParagraph) # None
            THEN /\ sentences_per_paragraph' =
                        PromptValue(entry, DefaultSentencesPerParagraph)
                 /\ pc' = "read_input_file"
                 /\ attempts' = 0
                 /\ UNCHANGED <<exit_status, message>>
            ELSE /\ attempts < MaxAttempts
                 /\ attempts' = attempts + 1
                 /\ UNCHANGED <<pc, sentences_per_paragraph, exit_status, message>>

read_input_file ==
    /\ pc = "read_input_file"
    /\ UNCHANGED <<argv, fs, line_length, sentences_per_paragraph, last_input, attempts,
                   prompted, text, sentences, paragraphs, new_text, out_opened, out_data>>
    /\ IF ~fs.readable
       THEN SysExit(MsgRead) /\ UNCHANGED <<input_read, content>>
       ELSE /\ input_read' = TRUE
            /\ content' = Strip(fs.data)
            /\ IF content' = <<>>
               THEN SysExit(MsgEmpty)
               ELSE pc' = "reformat_text" /\ UNCHANGED <<exit_status, message>>

ReformatText ==
    /\ pc = "reformat_text"
    /\ UNCHANGED <<argv, fs, line_length, sentences_per_paragraph, last_input, attempts,
                   prompted, input_read, content, out_opened, out_data>>
    /\ IF ReformatRaises(content, line_length[1], sentences_per_paragraph[1])
       THEN SysExit(MsgReformat) /\ UNCHANGED <<text, sentences, paragraphs, new_text>>
       ELSE LET r == reformat_text(content, line_length[1], sentences_per_paragraph[1])
            IN /\ text' = r.text
               /\ sentences' = r.sentences
               /\ paragraphs' = r.paragraphs
               /\ new_text' = r.new_text
               /\ pc' = "write_output_file"
               /\ UNCHANGED <<exit_status, message>>

\* open(filename, "w") creates or truncates the file; a failure of f.write or
\* of the close that flushes it leaves whatever prefix reached the file.
write_output_file ==
    /\ pc = "write_output_file"
    /\ UNCHANGED <<argv, fs, line_length, sentences_per_paragraph, last_input, attempts,
                   prompted, input_read, content, text, sentences, paragraphs, new_text>>
    /\ \E outcome \in {"open fails", "write fails", "written"} :
         IF outcome = "open fails"
         THEN SysExit(MsgWrite) /\ UNCHANGED <<out_opened, out_data>>
         ELSE IF outcome = "write fails"
         THEN /\ SysExit(MsgWrite)
              /\ out_opened' = TRUE
              /\ \E n \in 0..Len(new_text) : out_data' = SubSeq(new_text, 1, n)
         ELSE /\ out_opened' = TRUE
              /\ out_data' = new_text
              /\ pc' = "done"
              /\ exit_status' = <<0>>
              /\ message' = MsgSuccess

\* The grouping step on its own.
GroupSentences ==
    /\ pc = "group_sentences_into_paragraphs"
    /\ paragraphs' = group_sentences_into_paragraphs(sentences, sentences_per_paragraph[1])
    /\ pc' = "grouped"
    /\ UNCHANGED <<argv, fs, line_length, sentences_per_paragraph, last_input, attempts,
                   prompted, input_read, content, text, sentences, new_text, out_opened,
                   out_data, exit_status, message>>

\* ------------------------------------------------------------ specifications
\* The program: one run of main from the command line to the exit.
Init ==
    /\ pc = "validate_args"
    /\ argv \in ArgvSet
    /\ fs \in FsSet
    /\ line_length = None /\ sentences_per_paragraph = None
    /\ content = <<>> /\ sentences = <<>>
    /\ Blank

Next ==
    \/ validate_args
    \/ get_line_length
    \/ get_sentences_per_paragraph
    \/ read_input_file
    \/ ReformatText
    \/ write_output_file

Spec == Init /\ [][Next]_vars

ValidRun == [exists |-> TRUE, readable |-> TRUE, data |-> <<>>]
ValidArgv == <<ProgName, <<"a", ".", "t", "x", "t">>, <<"b", ".", "m", "d">> >>

\* reformat_text on every content read_input_file can return (up to MaxLen),
\* every width in 1..MaxWidth and every group size in 1..MaxGroup.
InitReformat ==
    /\ pc = "reformat_text"
    /\ argv = ValidArgv /\ fs = ValidRun
    /\ content \in StrippedContents(MaxLen)
    /\ \E w \in 1..MaxWidth : line_length = <<w>>
    /\ \E k \in 1..MaxGroup : sentences_per_paragraph = <<k>>
    /\ sentences = <<>>
    /\ Blank

NextReformat == ReformatText

SpecReformat == InitReformat /\ [][NextReformat]_vars

\* group_sentences_into_paragraphs on every sequence of 1..MaxSentences sample
\* sentences and every group size in 1..MaxGroup + 1.
InitGroup ==
    /\ pc = "group_sentences_into_paragraphs"
    /\ argv = ValidArgv /\ fs = ValidRun
    /\ content = <<>>
    /\ line_length = <<DefaultLineLength>>
    /\ \E k \in 1..(MaxGroup + 1) : sentences_per_paragraph = <<k>>
    /\ sentences \in SeqsOf(SampleSentences, 1, MaxSentences)
    /\ Blank

NextGroup == GroupSentences

SpecGroup == InitGroup /\ [][NextGroup]_vars

\* ------------------------------------------------- vocabulary of the claims
RECURSIVE SplitOn(_, _, _, _)
SplitOn(s, sep, cur, acc) ==
    IF s = <<>> THEN Append(acc, cur)
    ELSE IF Head(s) = sep THEN SplitOn(Tail(s), sep, <<>>, Append(acc, cur))
    ELSE SplitOn(Tail(s), sep, Append(cur, Head(s)), acc)

\* The lines of a text: what lies between its line breaks.
LinesOf(s) == SplitOn(s, "\n", <<>>, <<>>)

\* The whitespace-delimited words of a text.
WordsOf(s) == StrSplit(s)

Range(f) == {f[i] : i \in DOMAIN f}

Reformatted == pc = "write_output_file"
Width == line_length[1]
GroupSize == sentences_per_paragraph[1]

\* C1: the words of reformat_text's output are the words of its input, in the
\* same order, none split, altered or dropped.
C1_WordsPreserved == Reformatted => WordsOf(new_text) = WordsOf(content)

\* C2: a word longer than the width is emitted whole, alone on a line of the
\* output.
C2_LongWordOnOwnLine ==
    Reformatted =>
        \A i \in 1..Len(WordsOf(content)) :
            Len(WordsOf(content)[i]) > Width => WordsOf(content)[i] \in Range(LinesOf(new_text))

\* C3: every output line of more than one word, or of one word no longer than
\* the width, is at most width characters long, and no output line ends in
\* whitespace.
C3_LinesWithinWidth ==
    Reformatted =>
        \A i \in 1..Len(LinesOf(new_text)) :
            LET line == LinesOf(new_text)[i]
                words == WordsOf(line)
            IN /\ (Len(words) > 1 \/ (Len(words) = 1 /\ Len(words[1]) <= Width))
                    => Len(line) <= Width
               /\ line = <<>> \/ line[Len(line)] \notin Whitespace

\* C4: n >= 1 sentences grouped by k >= 1 give ceil(n/k) paragraphs; paragraph j
\* is sentences (j-1)k+1 .. min(jk, n) joined by single spaces, so each but the
\* last holds k sentences and the last holds 1..k.
C4_SequentialChunks ==
    pc = "grouped" =>
        LET n == Len(sentences)
            k == GroupSize
            m == (n + k - 1) \div k
        IN /\ Len(paragraphs) = m
           /\ n - (m - 1) * k \in 1..k
           /\ \A j \in 1..m :
                paragraphs[j] =
                    Join(SubSeq(sentences, (j - 1) * k + 1, IF j < m THEN j * k ELSE n),
                         <<" ">>)

\* Several paragraphs, the last one short.
C4_Witness ==
    /\ pc = "grouped"
    /\ Len(paragraphs) >= 2
    /\ Len(sentences) % GroupSize # 0

\* A terminal mark directly followed by a space occurs in the text.
HasSentenceBreak(t) == \E i \in 1..(Len(t) - 1) : t[i] \in Terminal /\ t[i + 1] = " "

\* C5: on normalized non-empty text the sentences joined by single spaces are
\* the text; each but the last ends in a terminal mark; none is empty; without
\* a terminal mark followed by a space the text is the one sentence.
C5_SplitLosesNothing ==
    Reformatted =>
        /\ Join(sentences, <<" ">>) = text
        /\ \A i \in 1..Len(sentences) : sentences[i] # <<>>
        /\ \A i \in 1..(Len(sentences) - 1) : sentences[i][Len(sentences[i])] \in Terminal
        /\ ~HasSentenceBreak(text) => sentences = <<text>>

\* A text of three sentences, the last without a terminal mark.
C5_Witness ==
    /\ Reformatted
    /\ Len(sentences) = 3
    /\ sentences[3][Len(sentences[3])] \notin Terminal

ErrorMessages ==
    {MsgUsage, MsgNotFound, MsgExtension, MsgLineInteger, MsgLinePositive, MsgSentInteger,
     MsgSentPositive, MsgRead, MsgEmpty, MsgReformat, MsgWrite}

\* C6: a run that ends with one of the error kinds has written no output, and
\* a run whose input is empty after trimming ends non-zero with the empty-input
\* message without opening the output file.
C6_NoOutputOnError ==
    /\ (pc = "exit" /\ message \in ErrorMessages) => (~out_opened /\ out_data = <<>>)
    /\ (pc = "exit" /\ input_read /\ content = <<>>)
            => (message = MsgEmpty /\ exit_status = <<1>> /\ ~out_opened)

\* The part of a name from its last dot on (empty when it has none).
RECURSIVE ExtensionOf(_)
ExtensionOf(name) ==
    IF name = <<>> THEN <<>>
    ELSE IF ExtensionOf(Tail(name)) # <<>> THEN ExtensionOf(Tail(name))
    ELSE IF Head(name) = "." THEN name
    ELSE <<>>

LacksAcceptedExtension(name) == ExtensionOf(name) \notin ACCEPTED_FILE_FORMATS

ArgcValid == Argc \in MinArgc..MaxArgc
Started == pc # "validate_args"
ExitedWith(msg) == pc = "exit" /\ exit_status = <<1>> /\ message = msg

\* C7 as stated: with a valid argument count, an input name without an accepted
\* extension ends the run non-zero with the extension message before any read.
C7_ExtensionRejected ==
    (Started /\ ArgcValid /\ LacksAcceptedExtension(Arg(1)))
        => (ExitedWith(MsgExtension) /\ ~input_read)

\* C7 amended: the same, for an input file that exists.
C7_ExtensionRejectedIfExists ==
    (Started /\ ArgcValid /\ fs.exists /\ LacksAcceptedExtension(Arg(1)))
        => (ExitedWith(MsgExtension) /\ ~input_read)

C7_Witness ==
    /\ ExitedWith(MsgExtension)
    /\ fs.exists
    /\ Arg(1) = <<"d", ".", "x", "y", "z">>
    /\ ~LacksAcceptedExtension(Arg(2))

\* The argument is non-numeric, or numeric and <= 0.
NonNumeric(arg) == ~ParseInt(arg).ok
NonPositive(arg) == ParseInt(arg).ok /\ ParseInt(arg).value <= 0
LineArgGiven == Argc >= 4
SentArgGiven == Argc >= 5
NoPromptForGiven ==
    /\ LineArgGiven => "line_length" \notin prompted
    /\ SentArgGiven => "sentences_per_paragraph" \notin prompted

\* C8 as stated: a supplied line-width or sentences-per-paragraph that is
\* non-numeric or <= 0 ends the run non-zero with its own message, and no
\* prompt is issued for a supplied value.
C8_BadNumericArgRejected ==
    /\ (Started /\ LineArgGiven /\ NonNumeric(Arg(3))) => ExitedWith(MsgLineInteger)
    /\ (Started /\ LineArgGiven /\ NonPositive(Arg(3))) => ExitedWith(MsgLinePositive)
    /\ (Started /\ SentArgGiven /\ NonNumeric(Arg(4))) => ExitedWith(MsgSentInteger)
    /\ (Started /\ SentArgGiven /\ NonPositive(Arg(4))) => ExitedWith(MsgSentPositive)
    /\ NoPromptForGiven

\* The checks validate_args makes before it looks at the numeric arguments.
EarlierChecksPass ==
    /\ ArgcValid
    /\ fs.exists
    /\ ~LacksAcceptedExtension(Arg(1))
    /\ ~LacksAcceptedExtension(Arg(2))

LineArgValid == ParseInt(Arg(3)).ok /\ ParseInt(Arg(3)).value > 0

\* C8 amended: the same once the argument count, the existence of the input
\* file and both extensions have passed, the sentences-per-paragraph message
\* being given only when the line-width is valid.
C8_BadNumericArgRejectedAfterChecks ==
    /\ (Started /\ EarlierChecksPass /\ LineArgGiven /\ NonNumeric(Arg(3)))
            => ExitedWith(MsgLineInteger)
    /\ (Started /\ EarlierChecksPass /\ LineArgGiven /\ NonPositive(Arg(3)))
            => ExitedWith(MsgLinePositive)
    /\ (Started /\ EarlierChecksPass /\ SentArgGiven /\ LineArgValid /\ NonNumeric(Arg(4)))
            => ExitedWith(MsgSentInteger)
    /\ (Started /\ EarlierChecksPass /\ SentArgGiven /\ LineArgValid /\ NonPositive(Arg(4)))
            => ExitedWith(MsgSentPositive)
    /\ NoPromptForGiven

C8_Witness ==
    /\ ExitedWith(MsgLinePositive)
    /\ Arg(3) = <<"-", "5">>
    /\ prompted = {}

\* What a prompt must do with an entry: the value to return, or None to ask
\* again.
Blankish(entry) == Strip(entry) = <<>>
PositiveEntry(entry) == ParseInt(Strip(entry)).ok /\ ParseInt(Strip(entry)).value > 0

PromptStep(here, value, valueNext, default) ==
    pc = here =>
        /\ (last_input' # EOF /\ Blankish(last_input'))
                => (valueNext = <<default>> /\ pc' \notin {here, "exit"})
        /\ (last_input' # EOF /\ PositiveEntry(last_input'))
                => (valueNext = <<ParseInt(Strip(last_input')).value>>
                    /\ pc' \notin {here, "exit"})
        /\ (last_input' # EOF /\ ~Blankish(last_input') /\ ~PositiveEntry(last_input'))
                => (pc' = here /\ valueNext = value /\ exit_status' = None)
        /\ pc' \notin {here, "exit"}
                => (last_input' # EOF /\ (Blankish(last_input') \/ PositiveEntry(last_input')))

\* C9: an omitted value is prompted for; a blank entry gives the default (70,
\* resp. 3), a positive integer gives itself, any other entry asks again
\* without ending the run or moving on, however many entries were rejected, and
\* the prompt returns only on a blank or valid entry.
C9_PromptContract ==
    [][/\ PromptStep("get_line_length", line_length, line_length', 70)
       /\ PromptStep("get_sentences_per_paragraph", sentences_per_paragraph,
                     sentences_per_paragraph', 3)
       /\ (pc = "validate_args" /\ pc' # "exit")
            => /\ (Argc < 4 => pc' = "get_line_length")
               /\ (Argc = 4 => pc' = "get_sentences_per_paragraph")]_vars

\* The line-length prompt is asking for the third time after "-5".
C9_Witness ==
    /\ pc = "get_line_length"
    /\ attempts = MaxAttempts
    /\ last_input = <<"-", "5">>

\* C10: reformat_text is reached only with line_length >= 1 and
\* sentences_per_paragraph >= 1, after the argument count, the existence of the
\* input file, both extensions and the non-empty content check have passed.
C10_ReformatPreconditions ==
    pc \in {"reformat_text", "write_output_file", "done"} =>
        /\ line_length # None /\ line_length[1] >= 1
        /\ sentences_per_paragraph # None /\ sentences_per_paragraph[1] >= 1
        /\ EarlierChecksPass
        /\ input_read
        /\ content # <<>>
        /\ Strip(fs.data) # <<>>

\* reformat_text is about to run on values that both came from prompts, one
\* entered and one defaulted.
C10_Witness ==
    /\ pc = "reformat_text"
    /\ prompted = {"line_length", "sentences_per_paragraph"}
    /\ line_length = <<2>>
    /\ sentences_per_paragraph = <<DefaultSentencesPerParagraph>>

=============================================================================
